---------------------------- MODULE Spec2Model ----------------------------
(***************************************************************************)
(* The sales dashboard script dashboard_app.py as a state machine.         *)
(*                                                                         *)
(* The script runs top to bottom once per user interaction.  The state     *)
(* that survives between runs is the cached result of load_data and the    *)
(* values of the five sidebar widgets; everything else (df_filtered, the   *)
(* metrics, the chart series) is rebuilt by each run.  One action of the   *)
(* model is one interaction followed by the full run it triggers.          *)
(*                                                                         *)
(* Order_Date is a timestamp counted in hours from 1 January 00:00 of a    *)
(* non-leap year; a date (what st.date_input returns) is a day number      *)
(* counted from 0.  Final_Price is an exact integer amount.                *)
(***************************************************************************)
EXTENDS Integers, Sequences, FiniteSets, TLC

\* ------------------------------------------------------------- bounds

\* Longest table enumerated exhaustively over SampleRows.
MaxRows == 2

\* The catalogue tables hold between TopN and TopN + MaxExtra products.
MaxExtra == 1

\* ---------------------------------------------------- program constants

\* head(10) of the product ranking.
TopN == 10

\* pd.to_datetime of a date is that day at 00:00: a day is 24 hours.
HoursPerDay == 24

\* ------------------------------------------------------------ calendar

MonthLengths == <<31, 28, 31, 30, 31, 30, 31, 31, 30, 31, 30, 31>>

RECURSIVE DaysBefore(_)
DaysBefore(m) == IF m = 1 THEN 0 ELSE DaysBefore(m - 1) + MonthLengths[m - 1]

\* pd.to_datetime on the text of a calendar date <<month, day>>.
ParseDate(text) == (DaysBefore(text[1]) + text[2] - 1) * HoursPerDay

\* pd.to_datetime on a date object: midnight of that day.
to_datetime(date) == date * HoursPerDay

\* st.date_input turns a timestamp (its default, its limits) into a date.
ToDate(ts) == ts \div HoursPerDay

\* Series.dt.month
MonthOf(ts) ==
    CHOOSE m \in 1..12 :
        /\ DaysBefore(m) <= ToDate(ts)
        /\ ToDate(ts) < DaysBefore(m) + MonthLengths[m]

\* ------------------------------------------------------- column values

\* The values of each categorical column, in ascending (sort) order.
CategoryNames == <<"Books", "Toys">>
RegionNames == <<"East", "West">>
SegmentNames == <<"Consumer", "Corporate">>
ProductNames ==
    <<"P01", "P02", "P03", "P04", "P05", "P06", "P07", "P08", "P09", "P10",
      "P11", "P12", "P13">>
MonthNumbers == <<1, 2, 3, 4, 5, 6, 7, 8, 9, 10, 11, 12>>

\* The ascending order of a column's keys.
KeyOrder(col) ==
    CASE col = "Category" -> CategoryNames
      [] col = "Region" -> RegionNames
      [] col = "Customer_Segment" -> SegmentNames
      [] col = "Product" -> ProductNames
      [] col = "Month" -> MonthNumbers

\* ------------------------------------------------------------ the file

CsvRow(date, cat, prod, reg, seg, price) ==
    [Order_Date |-> date, Category |-> cat, Product |-> prod, Region |-> reg,
     Customer_Segment |-> seg, Final_Price |-> price]

\* Rows the short tables are built from: two days on either side of a
\* month end, two prices, and three combinations of the categorical columns.
SampleRows ==
    { CsvRow(d, k[1], k[2], k[3], k[4], p) :
        d \in {<<1, 31>>, <<2, 1>>},
        k \in {<<"Toys", "P02", "East", "Consumer">>,
               <<"Books", "P01", "West", "Corporate">>,
               <<"Toys", "P03", "West", "Consumer">>},
        p \in {1, 2} }

RECURSIVE SeqsUpTo(_, _)
SeqsUpTo(S, n) ==
    IF n = 0 THEN {<<>>}
    ELSE LET shorter == SeqsUpTo(S, n - 1)
         IN shorter \cup {Append(s, x) : s \in {t \in shorter : Len(t) = n - 1}, x \in S}

ShortFiles == {s \in SeqsUpTo(SampleRows, MaxRows) : Len(s) >= 1}

\* Row i of a catalogue file: one row per product, products in descending
\* name order, the categorical columns cycling at different rates, the days
\* cycling over 30 January, 31 January, 1 February.  The price is the row
\* number, except that with tie = TRUE the two cheapest rows cost the same.
CatalogueRow(i, n, tie) ==
    CsvRow(<< <<1, 30>>, <<1, 31>>, <<2, 1>> >>[(i % 3) + 1],
           CategoryNames[(i % 2) + 1],
           ProductNames[n + 1 - i],
           RegionNames[((i \div 2) % 2) + 1],
           SegmentNames[((i \div 4) % 2) + 1],
           IF tie /\ i = 1 THEN 2 ELSE i)

CatalogueFiles ==
    { [i \in 1..n |-> CatalogueRow(i, n, tie)] :
        n \in TopN..(TopN + MaxExtra), tie \in BOOLEAN }

CsvFiles == ShortFiles \cup CatalogueFiles

\* ------------------------------------------------------------ load_data

LoadRow(r) ==
    LET ts == ParseDate(r.Order_Date)
    IN [Order_Date |-> ts, Category |-> r.Category, Product |-> r.Product,
        Region |-> r.Region, Customer_Segment |-> r.Customer_Segment,
        Final_Price |-> r.Final_Price, Month |-> MonthOf(ts)]

load_data(file) == [i \in 1..Len(file) |-> LoadRow(file[i])]


\* st.cache_data: the first call runs the function and stores its result,
\* every later call returns the stored result.
cached_load_data(c, file) == IF c.hit THEN c.value ELSE load_data(file)

\* ------------------------------------------------------ pandas helpers

RECURSIVE Take(_, _, _)
Take(t, I, i) ==
    IF i > Len(t) THEN <<>>
    ELSE IF i \in I THEN <<t[i]>> \o Take(t, I, i + 1)
    ELSE Take(t, I, i + 1)

\* Boolean-mask indexing df[mask]: a new frame with the rows whose index is
\* in I, in their order in t.
Rows(t, I) == Take(t, I, 1)

\* Series.unique(): the distinct values of a column, in order of first
\* appearance.
unique(t, col) ==
    LET first == {i \in 1..Len(t) : \A j \in 1..(i - 1) : t[j][col] # t[i][col]}
        rows == Rows(t, first)
    IN [k \in 1..Len(rows) |-> rows[k][col]]

Range(s) == {s[i] : i \in 1..Len(s)}

RECURSIVE SumOver(_, _, _)
SumOver(t, col, i) == IF i > Len(t) THEN 0 ELSE t[i][col] + SumOver(t, col, i + 1)

NaN == [nan |-> TRUE, num |-> 0, den |-> 1]

\* Series.sum(): 0 for an empty series.
sum(t, col) == SumOver(t, col, 1)

\* A mean that is 0 for an empty series.
mean_ZeroOnEmpty(t, col) ==
    [nan |-> FALSE, num |-> SumOver(t, col, 1), den |-> IF Len(t) = 0 THEN 1 ELSE Len(t)]

\* Series.mean(): the sum over the count as an exact fraction num/den, and
\* NaN for an empty series.
mean(t, col) ==
    IF Len(t) = 0 THEN NaN
    ELSE [nan |-> FALSE, num |-> sum(t, col), den |-> Len(t)]

\* Series.min() and Series.max() of a non-empty Order_Date column.
MinDate(t) == CHOOSE x \in {t[i].Order_Date : i \in 1..Len(t)} :
                  \A i \in 1..Len(t) : x <= t[i].Order_Date
MaxDate(t) == CHOOSE x \in {t[i].Order_Date : i \in 1..Len(t)} :
                  \A i \in 1..Len(t) : x >= t[i].Order_Date

\* A groupby that keeps the first value of each group instead of the sum.
GroupBySum_First(t, col, val) ==
    LET present(k) == \E i \in 1..Len(t) : t[i][col] = k
        keys == SelectSeq(KeyOrder(col), present)
    IN [n \in 1..Len(keys) |->
          [key |-> keys[n],
           sum |-> Rows(t, {i \in 1..Len(t) : t[i][col] = keys[n]})[1][val]]]

\* df.groupby(col)[val].sum(): one entry per key present in the frame, the
\* keys in ascending order (groupby sorts its keys), each with the sum of
\* val over the rows of that key.
GroupBySum(t, col, val) ==
    LET present(k) == \E i \in 1..Len(t) : t[i][col] = k
        keys == SelectSeq(KeyOrder(col), present)
    IN [n \in 1..Len(keys) |->
          [key |-> keys[n],
           sum |-> sum(Rows(t, {i \in 1..Len(t) : t[i][col] = keys[n]}), val)]]

Remove(s, i) == SubSeq(s, 1, i - 1) \o SubSeq(s, i + 1, Len(s))

\* A sort_values that leaves the entries in groupby's key order.
sort_values_Unsorted(s, asc) == {s}

\* Series.sort_values(ascending=asc) with the default kind='quicksort',
\* which is not a stable sort: every arrangement of the entries that is
\* ordered by sum is a possible result, whatever the order among equal sums.
RECURSIVE sort_values(_, _)
sort_values(s, asc) ==
    IF Len(s) = 0 THEN {<<>>}
    ELSE LET isNext(i) == \A j \in 1..Len(s) :
                             IF asc THEN s[i].sum <= s[j].sum
                                    ELSE s[i].sum >= s[j].sum
         IN UNION { { <<s[i]>> \o rest : rest \in sort_values(Remove(s, i), asc) } :
                      i \in {k \in 1..Len(s) : isNext(k)} }

\* A head that keeps one entry too many.
head_OffByOne(s, n) == SubSeq(s, 1, IF Len(s) < n + 1 THEN Len(s) ELSE n + 1)

\* Series.head(n)
head(s, n) == SubSeq(s, 1, IF Len(s) < n THEN Len(s) ELSE n)

\* ------------------------------------------------------------ the state

VARIABLES
    csv,                \* the rows of sales_data.csv
    cache,              \* st.cache_data's entry for load_data
    run_status,         \* "not_run", or how the latest run ended
    df,                 \* the frame bound to df when the latest run ended
    category_options, region_options, segment_options,   \* multiselect options
    start_date, end_date, categories, regions, segments, \* widget values
    df_filtered,
    total_revenue, avg_order_value, total_customers,
    category_data, monthly_data, region_data, segment_data, top_products

vars ==
    <<csv, cache, run_status, df, category_options, region_options,
      segment_options, start_date, end_date, categories, regions, segments,
      df_filtered, total_revenue, avg_order_value, total_customers,
      category_data, monthly_data, region_data, segment_data, top_products>>

\* A filter whose end bound is exclusive.
FilterMask_StrictEnd(t, sd, ed, cats, regs, segs) ==
    {i \in 1..Len(t) :
        /\ t[i].Order_Date >= to_datetime(sd)
        /\ t[i].Order_Date < to_datetime(ed)
        /\ t[i].Category \in cats
        /\ t[i].Region \in regs
        /\ t[i].Customer_Segment \in segs}

\* A filter whose start bound is exclusive.
FilterMask_StrictStart(t, sd, ed, cats, regs, segs) ==
    {i \in 1..Len(t) :
        /\ t[i].Order_Date > to_datetime(sd)
        /\ t[i].Order_Date <= to_datetime(ed)
        /\ t[i].Category \in cats
        /\ t[i].Region \in regs
        /\ t[i].Customer_Segment \in segs}

\* A filter that joins its two date conditions with | instead of &.
FilterMask_DateOr(t, sd, ed, cats, regs, segs) ==
    {i \in 1..Len(t) :
        /\ \/ t[i].Order_Date >= to_datetime(sd)
           \/ t[i].Order_Date <= to_datetime(ed)
        /\ t[i].Category \in cats
        /\ t[i].Region \in regs
        /\ t[i].Customer_Segment \in segs}

\* A filter that reads an inverted range as the range between its two ends.
FilterMask_SwapInverted(t, sd, ed, cats, regs, segs) ==
    {i \in 1..Len(t) :
        /\ t[i].Order_Date >= to_datetime(IF sd <= ed THEN sd ELSE ed)
        /\ t[i].Order_Date <= to_datetime(IF sd <= ed THEN ed ELSE sd)
        /\ t[i].Category \in cats
        /\ t[i].Region \in regs
        /\ t[i].Customer_Segment \in segs}

\* The rows df[...] keeps at lines 81-87.
FilterMask(t, sd, ed, cats, regs, segs) ==
    {i \in 1..Len(t) :
        /\ t[i].Order_Date >= to_datetime(sd)
        /\ t[i].Order_Date <= to_datetime(ed)
        /\ t[i].Category \in cats
        /\ t[i].Region \in regs
        /\ t[i].Customer_Segment \in segs}

\* A filter applied in place: df = df[...].
DfAfterFilter_InPlace(t, filtered) == filtered

\* The frame the name df refers to once the filter has been applied: the
\* result of the indexing is bound to df_filtered, df itself is not rebound.
DfAfterFilter(t, filtered) == t

\* Option lists read from the filtered frame.
OptionsSource_Filtered(t, filtered) == filtered

\* The frame the option lists of the three multiselects are read from.
OptionsSource(t, filtered) == t

\* One run of the script with the widgets at the given values; with
\* defaults = TRUE (the first run of a session) every widget takes its
\* default instead.
Run(sd0, ed0, cats0, regs0, segs0, defaults) ==
    LET t == cached_load_data(cache, csv)
        min_date == MinDate(t)
        max_date == MaxDate(t)
        sd == IF defaults THEN ToDate(min_date) ELSE sd0
        ed == IF defaults THEN ToDate(max_date) ELSE ed0
        cats == IF defaults THEN Range(unique(t, "Category")) ELSE cats0
        regs == IF defaults THEN Range(unique(t, "Region")) ELSE regs0
        segs == IF defaults THEN Range(unique(t, "Customer_Segment")) ELSE segs0
        filtered == Rows(t, FilterMask(t, sd, ed, cats, regs, segs))
        src == OptionsSource(t, filtered)
    IN /\ cache' = [hit |-> TRUE, value |-> t]
       /\ csv' = csv
       /\ start_date' = sd
       /\ end_date' = ed
       /\ category_options' = unique(src, "Category")
       /\ region_options' = unique(src, "Region")
       /\ segment_options' = unique(src, "Customer_Segment")
       /\ categories' = cats
       /\ regions' = regs
       /\ segments' = segs
       /\ df_filtered' = filtered
       /\ df' = DfAfterFilter(t, filtered)
       /\ total_revenue' = sum(filtered, "Final_Price")
       /\ avg_order_value' = mean(filtered, "Final_Price")
       /\ total_customers' = Len(filtered)
       /\ category_data' \in sort_values(GroupBySum(filtered, "Category", "Final_Price"), TRUE)
       /\ monthly_data' = GroupBySum(filtered, "Month", "Final_Price")
       /\ region_data' = GroupBySum(filtered, "Region", "Final_Price")
       /\ segment_data' \in
            sort_values(GroupBySum(filtered, "Customer_Segment", "Final_Price"), FALSE)
       /\ top_products' \in
            { head(s, TopN) :
                s \in sort_values(GroupBySum(filtered, "Product", "Final_Price"), FALSE) }
       /\ run_status' = "completed"

\* ----------------------------------------------------------- behaviour

Init ==
    /\ csv \in CsvFiles
    /\ cache = [hit |-> FALSE, value |-> <<>>]
    /\ run_status = "not_run"
    /\ df = <<>>
    /\ category_options = <<>>
    /\ region_options = <<>>
    /\ segment_options = <<>>
    /\ start_date = 0
    /\ end_date = 0
    /\ categories = {}
    /\ regions = {}
    /\ segments = {}
    /\ df_filtered = <<>>
    /\ total_revenue = 0
    /\ avg_order_value = NaN
    /\ total_customers = 0
    /\ category_data = <<>>
    /\ monthly_data = <<>>
    /\ region_data = <<>>
    /\ segment_data = <<>>
    /\ top_products = <<>>

\* The session's first run: load_data reads the file, the widgets show
\* their defaults.
FirstRun ==
    /\ ~cache.hit
    /\ Run(0, 0, {}, {}, {}, TRUE)

\* The dates st.date_input accepts: min_value to max_value.
DateChoices == ToDate(MinDate(cache.value))..ToDate(MaxDate(cache.value))

SetStartDate ==
    /\ cache.hit
    /\ \E d \in DateChoices :
          /\ d # start_date
          /\ Run(d, end_date, categories, regions, segments, FALSE)

SetEndDate ==
    /\ cache.hit
    /\ \E d \in DateChoices :
          /\ d # end_date
          /\ Run(start_date, d, categories, regions, segments, FALSE)

SetCategories ==
    /\ cache.hit
    /\ \E sel \in SUBSET Range(category_options) :
          /\ sel # categories
          /\ Run(start_date, end_date, sel, regions, segments, FALSE)

SetRegions ==
    /\ cache.hit
    /\ \E sel \in SUBSET Range(region_options) :
          /\ sel # regions
          /\ Run(start_date, end_date, categories, sel, segments, FALSE)

SetSegments ==
    /\ cache.hit
    /\ \E sel \in SUBSET Range(segment_options) :
          /\ sel # segments
          /\ Run(start_date, end_date, categories, regions, sel, FALSE)

\* A click on the download button: the script runs again with the widgets
\* as they are.
Download ==
    /\ cache.hit
    /\ Run(start_date, end_date, categories, regions, segments, FALSE)

Next ==
    \/ FirstRun
    \/ SetStartDate
    \/ SetEndDate
    \/ SetCategories
    \/ SetRegions
    \/ SetSegments
    \/ Download

Spec == Init /\ [][Next]_vars

\* ------------------------------------------------------------ properties

Loaded == cache.hit

\* The table load_data produced for this session.
FullTable == cache.value

ColumnValues(t, col) == {t[i][col] : i \in 1..Len(t)}

\* The four retention conditions, on calendar days and on the selected sets.
Retained(r) ==
    /\ start_date <= ToDate(r.Order_Date)
    /\ ToDate(r.Order_Date) <= end_date
    /\ r.Category \in categories
    /\ r.Region \in regions
    /\ r.Customer_Segment \in segments

\* The k-th smallest member of a set of row numbers.
Kth(I, k) == CHOOSE i \in I : Cardinality({j \in I : j < i}) = k - 1

RECURSIVE SumOfSums(_)
SumOfSums(s) == IF Len(s) = 0 THEN 0 ELSE Head(s).sum + SumOfSums(Tail(s))

Ascending(s) == \A i \in 1..Len(s) : \A j \in (i + 1)..Len(s) : s[i].sum <= s[j].sum
Descending(s) == \A i \in 1..Len(s) : \A j \in (i + 1)..Len(s) : s[i].sum >= s[j].sum
StrictlyDescending(s) ==
    \A i \in 1..Len(s) : \A j \in (i + 1)..Len(s) : s[i].sum > s[j].sum

\* The row number at which a key of a column first occurs in a frame.
FirstRow(t, col, k) ==
    CHOOSE i \in 1..Len(t) :
        /\ t[i][col] = k
        /\ \A j \in 1..(i - 1) : t[j][col] # k

\* Equal sums of a view stand in the order their keys first occur in the rows.
TiesByFirstRow(s, t, col) ==
    \A i \in 1..Len(s) : \A j \in (i + 1)..Len(s) :
        s[i].sum = s[j].sum => FirstRow(t, col, s[i].key) < FirstRow(t, col, s[j].key)

\* A view holds each key once.
DistinctKeys(s) == \A i \in 1..Len(s) : \A j \in 1..Len(s) : s[i].key = s[j].key => i = j

\* C1: the filtered table is exactly the rows of the loaded table that meet
\* all four conditions (date within the inclusive range, Category, Region and
\* Customer_Segment each selected), in their original order.
C1_FilterKeepsExactlyMatchingRows ==
    Loaded =>
        LET M == {i \in 1..Len(FullTable) : Retained(FullTable[i])}
        IN /\ Len(df_filtered) = Cardinality(M)
           /\ \A k \in 1..Len(df_filtered) : df_filtered[k] = FullTable[Kth(M, k)]

\* A run that kept a row and dropped others: one for its date alone, one for
\* its region alone.
C1_Witness ==
    /\ Loaded
    /\ Len(df_filtered) >= 1
    /\ \E i \in 1..Len(FullTable) :
          /\ ToDate(FullTable[i].Order_Date) > end_date
          /\ FullTable[i].Category \in categories
          /\ FullTable[i].Region \in regions
          /\ FullTable[i].Customer_Segment \in segments
    /\ \E i \in 1..Len(FullTable) :
          /\ start_date <= ToDate(FullTable[i].Order_Date)
          /\ ToDate(FullTable[i].Order_Date) <= end_date
          /\ FullTable[i].Category \in categories
          /\ FullTable[i].Region \notin regions
          /\ FullTable[i].Customer_Segment \in segments

\* C2 as stated: with the start date after the end date the run ends in
\* InvalidRangeError.
C2_InvertedRangeRaises ==
    (Loaded /\ start_date > end_date) => run_status = "InvalidRangeError"

\* C2 as amended: with the start date after the end date the run completes
\* without an error and the filtered table is empty.
C2_InvertedRangeGivesEmptyTable ==
    (Loaded /\ start_date > end_date) =>
        /\ run_status = "completed"
        /\ df_filtered = <<>>

\* An inverted range while every categorical value is still selected.
C2_Witness ==
    /\ Loaded
    /\ start_date > end_date
    /\ categories = ColumnValues(FullTable, "Category")
    /\ regions = ColumnValues(FullTable, "Region")
    /\ segments = ColumnValues(FullTable, "Customer_Segment")
    /\ run_status = "completed"

\* C3 as stated: on an empty filtered table the average order value and the
\* order count are both 0.
C3_EmptyMeanAndCountAreZero ==
    (Loaded /\ Len(df_filtered) = 0) =>
        /\ ~avg_order_value.nan
        /\ avg_order_value.num = 0
        /\ total_customers = 0

\* C3 as amended: on an empty filtered table the run completes, the order
\* count is 0 and the average order value is NaN.
C3_EmptyMeanIsNaNCountIsZero ==
    (Loaded /\ Len(df_filtered) = 0) =>
        /\ run_status = "completed"
        /\ total_customers = 0
        /\ avg_order_value.nan

\* A valid date range with a deselected column leaving no row.
C3_Witness ==
    /\ Loaded
    /\ start_date <= end_date
    /\ categories = {}
    /\ Len(df_filtered) = 0
    /\ avg_order_value.nan

\* C4: with the date range from the table's first to its last day and every
\* value of the three categorical columns selected, the filtered table is the
\* loaded table.
C4_DefaultCriteriaKeepEveryRow ==
    ( /\ Loaded
      /\ start_date = ToDate(MinDate(FullTable))
      /\ end_date = ToDate(MaxDate(FullTable))
      /\ categories = ColumnValues(FullTable, "Category")
      /\ regions = ColumnValues(FullTable, "Region")
      /\ segments = ColumnValues(FullTable, "Customer_Segment") )
    => df_filtered = FullTable

\* The default criteria on a table spanning several days, categories,
\* regions and segments.
C4_Witness ==
    /\ Loaded
    /\ start_date = ToDate(MinDate(FullTable))
    /\ end_date = ToDate(MaxDate(FullTable))
    /\ start_date < end_date
    /\ categories = ColumnValues(FullTable, "Category")
    /\ regions = ColumnValues(FullTable, "Region")
    /\ segments = ColumnValues(FullTable, "Customer_Segment")
    /\ Cardinality(categories) > 1
    /\ Cardinality(regions) > 1
    /\ Cardinality(segments) > 1
    /\ df_filtered = FullTable

\* C5 as stated: the top products view has at most TopN entries, is strictly
\* descending by sum, and each entry is an entry of the per-product sums.
C5_TopProductsStrictlyDescending ==
    Loaded =>
        /\ Len(top_products) <= TopN
        /\ StrictlyDescending(top_products)
        /\ Range(top_products) \subseteq
              Range(GroupBySum(df_filtered, "Product", "Final_Price"))

\* C5 as amended: the top products view has min(TopN, number of products)
\* entries, never ascends (equal sums may follow each other), and each entry
\* is an entry of the per-product sums.
C5_TopProductsNeverAscending ==
    Loaded =>
        LET all == GroupBySum(df_filtered, "Product", "Final_Price")
        IN /\ Len(top_products) = (IF Len(all) < TopN THEN Len(all) ELSE TopN)
           /\ Descending(top_products)
           /\ DistinctKeys(top_products)
           /\ Range(top_products) \subseteq Range(all)
           /\ \A e \in Range(all) \ Range(top_products) :
                 \A k \in 1..Len(top_products) : e.sum <= top_products[k].sum

\* More than TopN products in the filtered table, of which TopN are shown.
C5_Witness ==
    /\ Loaded
    /\ Len(GroupBySum(df_filtered, "Product", "Final_Price")) > TopN
    /\ Len(top_products) = TopN

\* C6: for each group column the per-group sums of Final_Price add up to the
\* total revenue.
C6_GroupSumsAddUpToTotal ==
    Loaded =>
        /\ SumOfSums(category_data) = total_revenue
        /\ SumOfSums(monthly_data) = total_revenue
        /\ SumOfSums(region_data) = total_revenue
        /\ SumOfSums(segment_data) = total_revenue
        /\ SumOfSums(GroupBySum(df_filtered, "Product", "Final_Price")) = total_revenue
        /\ total_revenue = SumOver(df_filtered, "Final_Price", 1)

\* Several groups in each view, some of them of several rows.
C6_Witness ==
    /\ Loaded
    /\ Len(category_data) > 1
    /\ Len(monthly_data) > 1
    /\ Len(region_data) > 1
    /\ Len(segment_data) > 1
    /\ Len(df_filtered) > Len(category_data) + Len(monthly_data)
    /\ total_revenue > 0

\* C7: the options of each categorical filter are the distinct values of its
\* column in the loaded table, whatever is selected.
C7_OptionsAreAllValues ==
    Loaded =>
        /\ Range(category_options) = ColumnValues(FullTable, "Category")
        /\ Range(region_options) = ColumnValues(FullTable, "Region")
        /\ Range(segment_options) = ColumnValues(FullTable, "Customer_Segment")

\* A selection that removed every row of a region and of a category from the
\* filtered table.
C7_Witness ==
    /\ Loaded
    /\ Len(df_filtered) >= 1
    /\ \E r \in Range(region_options) : r \notin ColumnValues(df_filtered, "Region")
    /\ \E c \in Range(category_options) : c \notin ColumnValues(df_filtered, "Category")

\* C8 as stated: in the three sorted views, groups with equal sums stand in
\* the order in which their keys first occur in the table's rows.
C8_TiesInFirstEncounteredOrder ==
    Loaded =>
        /\ TiesByFirstRow(category_data, df_filtered, "Category")
        /\ TiesByFirstRow(segment_data, df_filtered, "Customer_Segment")
        /\ TiesByFirstRow(top_products, df_filtered, "Product")

\* C8 as amended: each sorted view holds the groups ordered by sum (revenue by
\* category ascending, by segment and top products descending), so that groups
\* with equal sums are neighbours; nothing more is fixed about their order.
C8_SortedViewsOrderedBySum ==
    Loaded =>
        /\ Ascending(category_data)
        /\ Range(category_data) = Range(GroupBySum(df_filtered, "Category", "Final_Price"))
        /\ Len(category_data) = Len(GroupBySum(df_filtered, "Category", "Final_Price"))
        /\ Descending(segment_data)
        /\ Range(segment_data) =
              Range(GroupBySum(df_filtered, "Customer_Segment", "Final_Price"))
        /\ Len(segment_data) =
              Len(GroupBySum(df_filtered, "Customer_Segment", "Final_Price"))
        /\ \A i \in 1..Len(top_products) : \A j \in (i + 1)..Len(top_products) :
              top_products[i].sum = top_products[j].sum =>
                  \A k \in i..j : top_products[k].sum = top_products[i].sum

\* Two categories with equal sums, the one first in the rows shown second.
C8_Witness ==
    /\ Loaded
    /\ Len(category_data) = 2
    /\ category_data[1].sum = category_data[2].sum
    /\ FirstRow(df_filtered, "Category", category_data[1].key) >
          FirstRow(df_filtered, "Category", category_data[2].key)

\* C9 as stated: a change that leaves the start date after the end date is
\* rejected: the criteria, the filtered table and the metrics stay as before.
C9_InvertedRangeRejected ==
    [][(Loaded /\ start_date <= end_date /\ start_date' > end_date') =>
          /\ start_date' = start_date
          /\ end_date' = end_date
          /\ df_filtered' = df_filtered
          /\ total_revenue' = total_revenue
          /\ avg_order_value' = avg_order_value
          /\ total_customers' = total_customers]_vars

\* C9 as amended: a change that leaves the start date after the end date is
\* accepted: the run completes, the filtered table is empty whatever it held
\* before, every metric and view is that of the empty table, and the loaded
\* table and the categorical selections are as before.
C9_InvertedRangeAccepted ==
    [][(Loaded /\ start_date <= end_date /\ start_date' > end_date') =>
          /\ run_status' = "completed"
          /\ df_filtered' = <<>>
          /\ total_revenue' = 0
          /\ avg_order_value' = NaN
          /\ total_customers' = 0
          /\ category_data' = <<>>
          /\ monthly_data' = <<>>
          /\ region_data' = <<>>
          /\ segment_data' = <<>>
          /\ top_products' = <<>>
          /\ cache' = cache
          /\ <<categories', regions', segments'>> = <<categories, regions, segments>>]_vars

\* An inverted range in effect over a table whose rows all meet the
\* categorical conditions.
C9_Witness ==
    /\ Loaded
    /\ start_date > end_date
    /\ df_filtered = <<>>
    /\ total_customers = 0
    /\ \A i \in 1..Len(FullTable) :
          /\ FullTable[i].Category \in categories
          /\ FullTable[i].Region \in regions
          /\ FullTable[i].Customer_Segment \in segments

\* C10: once loaded, the table is the same after every run: the cache entry
\* and the frame bound to df keep their rows, order and values, and df is the
\* table load_data built from the file.
C10_LoadedTableUnchanged ==
    [][Loaded => /\ cache' = cache
                 /\ df' = df
                 /\ df' = load_data(csv')]_vars

\* A run that filtered rows out of a loaded table of several rows.
C10_Witness ==
    /\ Loaded
    /\ Len(df) > 1
    /\ Len(df_filtered) < Len(df)
    /\ df = load_data(csv)
    /\ (start_date # ToDate(MinDate(df)) \/ categories # ColumnValues(df, "Category"))

=============================================================================
